---------------------------- MODULE Spec2Model ----------------------------
(***************************************************************************)
(* Cyclic-moment feature engineering of data_feature-engineering.ipynb:    *)
(* form_features (16 statistics of the raw complex sequence),              *)
(* form_next16_features (the same 16 statistics of the 8-lag product) and  *)
(* the concatenation of the two blocks into 32 columns; and the cells that  *)
(* split the dataset, assemble, shuffle and standardize the training and   *)
(* the per-SNR test sets.                                                  *)
(*                                                                         *)
(* Arithmetic is exact.  A real number is a record [n, d, p, r] that       *)
(* stands for (n/d)^(1/r) * pi^p, with n/d in lowest terms; a complex      *)
(* array element is [re, im] with integer parts, a complex statistic is    *)
(* [re, im] with real parts.  The I/Q inputs are integers on the axes of   *)
(* the complex plane, where magnitudes are integers and angles are         *)
(* multiples of pi/2: an operator applied outside that domain has no       *)
(* value and TLC reports it.                                               *)
(***************************************************************************)
EXTENDS Integers, Sequences, FiniteSets, TLC

VARIABLES X, shape, pc, X_complex, X_complex_8lag, samp_num, clmn,
          X_16, X_next16, X_32, exc, todo, writes

\* the names of the data-preparation cells
VARIABLES Xd_digital, Xd_shuffled, dict_test, dict_train, X_train, y_train,
          X_test, y_test, X_test16, X_32test, sc, X_train_std, X_test_std,
          X_32train_std, X_32test_std, snr_i, raised

data == <<Xd_digital, Xd_shuffled, dict_test, dict_train, X_train, y_train,
          X_test, y_test, X_test16, X_32test, sc, X_train_std, X_test_std,
          X_32train_std, X_32test_std, snr_i, raised>>

vars == <<X, shape, pc, X_complex, X_complex_8lag, samp_num, clmn,
          X_16, X_next16, X_32, exc, todo, writes, data>>

(***************************************************************************)
(* Bounds of the model.                                                    *)
(***************************************************************************)
MaxN == 2
MaxL == 10
MaxChan == 3
FullCells == 3
OddCells == 2
ParCells == 4

\* the dataset: modulations, SNRs, samples per (modulation, SNR) key and
\* sequence length
NMods == 2
NSnrs == 2
MaxM == 3
SigLen == 2

\* the longest sample whose every permutation of the time indices is tried
FullOrder == 4

\* the cyclic time lag of form_next16_features
LAG == 8

\* a name that holds no array (an unassigned notebook variable)
None == <<>>

(***************************************************************************)
(* Exact arithmetic.                                                       *)
(***************************************************************************)
IAbs(x) == IF x < 0 THEN -x ELSE x

RECURSIVE Gcd(_, _)
Gcd(a, b) == IF b = 0 THEN a ELSE Gcd(b, a % b)

\* (n/d) * pi^p in lowest terms; zero has one representation
Real(n, d, p) ==
    IF n = 0 THEN [n |-> 0, d |-> 1, p |-> 0, r |-> 1]
    ELSE LET g == Gcd(IAbs(n), d)
         IN  [n |-> n \div g, d |-> d \div g, p |-> p, r |-> 1]

Zero == Real(0, 1, 0)

RAdd(a, b) ==
    CASE a.n = 0 /\ a.r = 1 -> b
      [] b.n = 0 /\ b.r = 1 -> a
      [] a.r = 1 /\ b.r = 1 /\ a.p = b.p ->
            Real(a.n * b.d + b.n * a.d, a.d * b.d, a.p)

RNeg(a) == CASE a.r = 1 -> [a EXCEPT !.n = -a.n]

RSub(a, b) == RAdd(a, RNeg(b))

RMul(a, b) == CASE a.r = 1 /\ b.r = 1 -> Real(a.n * b.n, a.d * b.d, a.p + b.p)

RAbs(a) == [a EXCEPT !.n = IAbs(a.n)]

RECURSIVE ISqrtBin(_, _, _)
ISqrtBin(m, lo, hi) ==
    IF lo >= hi THEN lo
    ELSE LET mid == (lo + hi + 1) \div 2
         IN  IF mid * mid <= m THEN ISqrtBin(m, mid, hi)
                               ELSE ISqrtBin(m, lo, mid - 1)

\* the integer part of the square root of m >= 0
ISqrt(m) == ISqrtBin(m, 0, IF m < 46340 THEN m ELSE 46340)

\* the square root of the rational a >= 0: rational when a is a square
RSqrt(a) ==
    CASE a.r = 1 /\ a.p = 0 /\ a.n >= 0 ->
        LET s == ISqrt(a.n)
            t == ISqrt(a.d)
        IN  IF s * s = a.n /\ t * t = a.d THEN Real(s, t, 0)
            ELSE [a EXCEPT !.r = 2]

\* complex(a, b) on integers
complex(a, b) == [re |-> a, im |-> b]

ZMul(a, b) == [re |-> a.re * b.re - a.im * b.im,
               im |-> a.re * b.im + a.im * b.re]

\* np.square and np.power(., 4) of a complex element
ZSquare(z) == ZMul(z, z)
ZPow4(z) == ZSquare(ZSquare(z))

\* abs of a complex element: sqrt(re^2 + im^2), an integer on the axes
ZAbs(z) == LET m == z.re * z.re + z.im * z.im
               s == ISqrt(m)
           IN  CASE s * s = m -> s

\* Angle with the real axis split at re > 0, so that the angle of 0 is pi
AngleStrict(z) ==
    CASE z.im = 0 /\ z.re > 0  -> Real(0, 1, 0)
      [] z.im = 0 /\ z.re <= 0 -> Real(1, 1, 1)
      [] z.re = 0 /\ z.im > 0  -> Real(1, 2, 1)
      [] z.re = 0 /\ z.im < 0  -> Real(-1, 2, 1)

\* np.angle of a complex element: arctan2(im, re), in (-pi, pi]
Angle(z) ==
    CASE z.im = 0 /\ z.re >= 0 -> Zero
      [] z.im = 0 /\ z.re < 0  -> Real(1, 1, 1)
      [] z.re = 0 /\ z.im > 0  -> Real(1, 2, 1)
      [] z.re = 0 /\ z.im < 0  -> Real(-1, 2, 1)

\* complex statistics: [re, im] with real parts
CReal(z) == [re |-> Real(z.re, 1, 0), im |-> Real(z.im, 1, 0)]
CScale(a, c) == [re |-> RMul(a, c.re), im |-> RMul(a, c.im)]
CSub(a, b) == [re |-> RSub(a.re, b.re), im |-> RSub(a.im, b.im)]
CSquare(c) == [re |-> RSub(RMul(c.re, c.re), RMul(c.im, c.im)),
               im |-> RAdd(RMul(c.re, c.im), RMul(c.im, c.re))]

\* abs of an element of the stacked feature array, which numpy makes complex
NpAbs(v) ==
    IF "re" \in DOMAIN v
    THEN CASE v.im.n = 0 -> RAbs(v.re)
           [] v.re.n = 0 -> RAbs(v.im)
           [] OTHER -> RSqrt(RAdd(RMul(v.re, v.re), RMul(v.im, v.im)))
    ELSE RAbs(v)


(***************************************************************************)
(* numpy arrays: a matrix is a function on 0..N-1 of functions on 0..L-1,  *)
(* a column vector (the result of a reduction along axis 1) a function on  *)
(* 0..N-1.                                                                 *)
(***************************************************************************)
RowLen(A) == Cardinality(DOMAIN A[0])

MapArr(Op(_), A) == [n \in DOMAIN A |-> [k \in DOMAIN A[n] |-> Op(A[n][k])]]

\* elementwise abs of a complex array, and of a real array
RFromAbs(z) == Real(ZAbs(z), 1, 0)
AbsArr(A) == MapArr(RFromAbs, A)
RAbsArr(A) == MapArr(RAbs, A)

\* np.square and np.power(., 4) of a real array
RSquare(a) == RMul(a, a)
RPow4(a) == RSquare(RSquare(a))

RECURSIVE ZSumTo(_, _)
ZSumTo(row, k) ==
    IF k = 0 THEN complex(0, 0)
    ELSE LET s == ZSumTo(row, k - 1)
         IN  complex(s.re + row[k - 1].re, s.im + row[k - 1].im)

RECURSIVE RSumTo(_, _)
RSumTo(row, k) == IF k = 0 THEN Zero ELSE RAdd(RSumTo(row, k - 1), row[k - 1])

\* np.sum(A, axis = 1) of a complex and of a real array
SumZ(A) == [n \in DOMAIN A |-> CReal(ZSumTo(A[n], RowLen(A)))]
SumR(A) == [n \in DOMAIN A |-> RSumTo(A[n], RowLen(A))]

\* MeanR without the division by the row length
MeanRSum(A) == [n \in DOMAIN A |-> RSumTo(A[n], Cardinality(DOMAIN A[0]))]

\* np.mean(A, axis = 1) of a complex and of a real array
MeanZ(A) == [n \in DOMAIN A |-> CScale(Real(1, RowLen(A), 0), SumZ(A)[n])]
MeanR(A) == [n \in DOMAIN A |-> RMul(Real(1, RowLen(A), 0), SumR(A)[n])]

\* a - (1/vec_len**2) * b on column vectors, complex and real
CumC(a, vec_len, b) ==
    [n \in DOMAIN a |-> CSub(a[n], CScale(Real(1, vec_len * vec_len, 0), b[n]))]
\* CumR with the factor 1/vec_len
CumRLen(a, vec_len, b) ==
    [n \in DOMAIN a |->
        [n |-> a[n].n * vec_len * b[n].d - b[n].n * a[n].d,
         d |-> a[n].d * vec_len * b[n].d,
         p |-> IF a[n].n # 0 THEN a[n].p ELSE b[n].p, r |-> 1]]

CumR(a, vec_len, b) ==
    [n \in DOMAIN a |-> RSub(a[n], RMul(Real(1, vec_len * vec_len, 0), b[n]))]

ColSquareC(v) == [n \in DOMAIN v |-> CSquare(v[n])]
ColSquareR(v) == [n \in DOMAIN v |-> RSquare(v[n])]
ColScaleR(a, v) == [n \in DOMAIN v |-> RMul(a, v[n])]

(***************************************************************************)
(* The complex array of both functions: the list comprehension over        *)
(* (samp_num, column), np.vstack and np.reshape to [n_samples, vec_len].   *)
(***************************************************************************)
Raise(e) == [ok |-> FALSE, err |-> e, val |-> None]
Return(v) == [ok |-> TRUE, err |-> "", val |-> v]

ListComp(A, n_samples, vec_len) ==
    [i \in 1..(n_samples * vec_len) |->
        LET samp == (i - 1) \div vec_len
            column == (i - 1) % vec_len
        IN  complex(A[samp][0][column], A[samp][1][column])]

\* Reshape reading the flat list in column-major order
ReshapeF(flat, n_samples, vec_len) ==
    [n \in 0..(n_samples - 1) |->
        [k \in 0..(vec_len - 1) |-> flat[k * n_samples + n + 1]]]

Reshape(flat, n_samples, vec_len) ==
    [n \in 0..(n_samples - 1) |->
        [k \in 0..(vec_len - 1) |-> flat[n * vec_len + k + 1]]]

BuildComplex(A, shp) ==
    LET n_samples == shp[1]
        rows == shp[2]
        vec_len == shp[3]
    IN  IF n_samples * vec_len > 0 /\ rows < 2 THEN Raise("IndexError")
        ELSE IF n_samples * vec_len = 0 THEN Raise("ValueError")
        ELSE Return(Reshape(ListComp(A, n_samples, vec_len), n_samples, vec_len))

(***************************************************************************)
(* The dictionary of features, kept in insertion order.                    *)
(***************************************************************************)
DictSet(d, key, val) ==
    IF \E i \in 1..Len(d) : d[i][1] = key
    THEN [i \in 1..Len(d) |-> IF d[i][1] = key THEN <<key, val>> ELSE d[i]]
    ELSE Append(d, <<key, val>>)

DictValues(d) == [i \in 1..Len(d) |-> d[i][2]]

\* abs(np.hstack(np.array(values))): one column per value, in order
HStackAbs(values, n_samples) ==
    [n \in 0..(n_samples - 1) |->
        [j \in 0..(Len(values) - 1) |-> NpAbs(values[j + 1][n])]]

(***************************************************************************)
(* form_features: the 16 features on 0 cyclic time lag.                    *)
(***************************************************************************)
X_complex_sqr(Xc) == MapArr(ZSquare, Xc)
X_complex_angl(Xc) == MapArr(Angle, Xc)

F1(Xc, vec_len) == MeanZ(Xc)
F2(Xc, vec_len) == MeanR(AbsArr(Xc))
F3(Xc, vec_len) == MeanR(X_complex_angl(Xc))
F4(Xc, vec_len) == MeanR(RAbsArr(X_complex_angl(Xc)))
F5(Xc, vec_len) == MeanZ(X_complex_sqr(Xc))
F6(Xc, vec_len) == MeanR(MapArr(RSquare, AbsArr(Xc)))
F7(Xc, vec_len) == MeanR(MapArr(RSquare, X_complex_angl(Xc)))

\* f8 as the mean of the absolute angle, not of its square
F8_unsquared(Xc, vec_len) == MeanR(RAbsArr(X_complex_angl(Xc)))
F8(Xc, vec_len) == MeanR(MapArr(RSquare, RAbsArr(X_complex_angl(Xc))))
F9(Xc, vec_len) ==
    CumC(MeanZ(X_complex_sqr(Xc)), vec_len, ColSquareC(SumZ(Xc)))
F10(Xc, vec_len) ==
    CumR(MeanR(MapArr(RSquare, AbsArr(Xc))), vec_len, ColSquareR(SumR(AbsArr(Xc))))
F11(Xc, vec_len) ==
    CumR(MeanR(MapArr(RSquare, X_complex_angl(Xc))), vec_len,
         ColSquareR(SumR(X_complex_angl(Xc))))
F12(Xc, vec_len) ==
    CumR(MeanR(MapArr(RSquare, RAbsArr(X_complex_angl(Xc)))), vec_len,
         ColSquareR(SumR(RAbsArr(X_complex_angl(Xc)))))
F13(Xc, vec_len) ==
    CumC(MeanZ(MapArr(ZPow4, Xc)), vec_len, ColSquareC(SumZ(X_complex_sqr(Xc))))
F14(Xc, vec_len) ==
    CumR(MeanR(MapArr(RPow4, AbsArr(Xc))), vec_len,
         ColSquareR(SumR(MapArr(RSquare, AbsArr(Xc)))))
F15(Xc, vec_len) ==
    CumR(MeanR(MapArr(RPow4, X_complex_angl(Xc))), vec_len,
         ColSquareR(SumR(MapArr(RSquare, X_complex_angl(Xc)))))
F16(Xc, vec_len) ==
    CumR(MeanR(MapArr(RPow4, RAbsArr(X_complex_angl(Xc)))), vec_len,
         ColSquareR(SumR(MapArr(RSquare, RAbsArr(X_complex_angl(Xc))))))

\* dict_16features with its values taken in the sorted order of the keys
dict_16features_sorted(Xc, vec_len) ==
    << <<"f1", F1(Xc, vec_len)>>, <<"f10", F10(Xc, vec_len)>>,
       <<"f11", F11(Xc, vec_len)>>, <<"f12", F12(Xc, vec_len)>>,
       <<"f13", F13(Xc, vec_len)>>, <<"f14", F14(Xc, vec_len)>>,
       <<"f15", F15(Xc, vec_len)>>, <<"f16", F16(Xc, vec_len)>>,
       <<"f2", F2(Xc, vec_len)>>, <<"f3", F3(Xc, vec_len)>>,
       <<"f4", F4(Xc, vec_len)>>, <<"f5", F5(Xc, vec_len)>>,
       <<"f6", F6(Xc, vec_len)>>, <<"f7", F7(Xc, vec_len)>>,
       <<"f8", F8(Xc, vec_len)>>, <<"f9", F9(Xc, vec_len)>> >>

dict_16features(Xc, vec_len) ==
    LET d1  == DictSet(<<>>, "f1", F1(Xc, vec_len))
        d2  == DictSet(d1, "f2", F2(Xc, vec_len))
        d3  == DictSet(d2, "f3", F3(Xc, vec_len))
        d4  == DictSet(d3, "f4", F4(Xc, vec_len))
        d5  == DictSet(d4, "f5", F5(Xc, vec_len))
        d6  == DictSet(d5, "f6", F6(Xc, vec_len))
        d7  == DictSet(d6, "f7", F7(Xc, vec_len))
        d8  == DictSet(d7, "f8", F8(Xc, vec_len))
        d9  == DictSet(d8, "f9", F9(Xc, vec_len))
        d10 == DictSet(d9, "f10", F10(Xc, vec_len))
        d11 == DictSet(d10, "f11", F11(Xc, vec_len))
        d12 == DictSet(d11, "f12", F12(Xc, vec_len))
        d13 == DictSet(d12, "f13", F13(Xc, vec_len))
        d14 == DictSet(d13, "f14", F14(Xc, vec_len))
        d15 == DictSet(d14, "f15", F15(Xc, vec_len))
    IN  DictSet(d15, "f16", F16(Xc, vec_len))

form_features(A, shp) ==
    LET built == BuildComplex(A, shp)
    IN  IF ~built.ok THEN built
        ELSE Return(HStackAbs(DictValues(dict_16features(built.val, shp[3])), shp[1]))

(***************************************************************************)
(* form_next16_features: the array of 8-lag products and its 16 features.  *)
(***************************************************************************)
\* np.zeros(X_complex.shape, dtype = complex)
Zeros(n_samples, vec_len) ==
    [n \in 0..(n_samples - 1) |-> [k \in 0..(vec_len - 1) |-> complex(0, 0)]]

\* shift_by held at the last index where the lag runs past the end
shift_clamped(column, vec_len) ==
    IF column + LAG < vec_len THEN column + LAG ELSE vec_len - 1

\* shift_by without the reduction modulo the length
shift_no_mod(column, vec_len) == column + 8

shift_by(column, vec_len) == (column + LAG) % vec_len

\* an index of an axis of the given size that raises no IndexError
InRange(i, size) == -size <= i /\ i < size

\* LagBody pairing each element with the one 8 places on in the flattened batch
LagBodyFlat(src, out, n, k, vec_len) ==
    LET flat == n * vec_len + k + LAG
        rows == Cardinality(DOMAIN src)
    IN  [src |-> src,
         out |-> [out EXCEPT ![n][k] =
                     ZMul(src[n][k], src[(flat \div vec_len) % rows][flat % vec_len])]]

\* LagBody with X_complex_8lag an alias of X_complex instead of a new array
LagBodyAlias(src, out, n, k, vec_len) ==
    LET v == ZMul(src[n][k], src[n][shift_by(k, vec_len)])
    IN  [src |-> [src EXCEPT ![n][k] = v], out |-> [src EXCEPT ![n][k] = v]]

\* one pass of the loop body on the arrays X_complex (src) and X_complex_8lag (out)
LagBody(src, out, n, k, vec_len) ==
    [src |-> src,
     out |-> [out EXCEPT ![n][k] = ZMul(src[n][k], src[n][shift_by(k, vec_len)])]]

\* the two nested loops, iteration i being (samp_num, clmn) = (i div L, i mod L)
RECURSIVE LagLoop(_, _, _)
LagLoop(st, i, vec_len) ==
    IF i = 0 THEN st
    ELSE LET before == LagLoop(st, i - 1, vec_len)
         IN  LagBody(before.src, before.out, (i - 1) \div vec_len,
                     (i - 1) % vec_len, vec_len)

X_complex8_sqr(X8) == MapArr(ZSquare, X8)
X_complex8_angl(X8) == MapArr(Angle, X8)

F17(X8, vec_len) == MeanZ(X8)
F18(X8, vec_len) == MeanR(AbsArr(X8))
F19(X8, vec_len) == MeanR(X_complex8_angl(X8))
F20(X8, vec_len) == MeanR(RAbsArr(X_complex8_angl(X8)))
F21(X8, vec_len) == MeanZ(X_complex8_sqr(X8))
F22(X8, vec_len) == MeanR(MapArr(RSquare, AbsArr(X8)))
F23(X8, vec_len) == MeanR(MapArr(RSquare, X_complex8_angl(X8)))
F24(X8, vec_len) == MeanR(MapArr(RSquare, RAbsArr(X_complex8_angl(X8))))
F25(X8, vec_len) ==
    CumC(MeanZ(X_complex8_sqr(X8)), vec_len, ColSquareC(SumZ(X8)))
F26(X8, vec_len) ==
    CumR(MeanR(MapArr(RSquare, AbsArr(X8))), vec_len, ColSquareR(SumR(AbsArr(X8))))
F27(X8, vec_len) ==
    CumR(MeanR(MapArr(RSquare, X_complex8_angl(X8))), vec_len,
         ColSquareR(SumR(X_complex8_angl(X8))))
F28(X8, vec_len) ==
    CumR(MeanR(MapArr(RSquare, RAbsArr(X_complex8_angl(X8)))), vec_len,
         ColSquareR(SumR(RAbsArr(X_complex8_angl(X8)))))
F29(X8, vec_len) ==
    CumC(MeanZ(MapArr(ZPow4, X8)), vec_len, ColSquareC(SumZ(X_complex8_sqr(X8))))
F30(X8, vec_len) ==
    CumR(MeanR(MapArr(RPow4, AbsArr(X8))), vec_len,
         ColSquareR(SumR(MapArr(RSquare, AbsArr(X8)))))
F31(X8, vec_len) ==
    CumR(ColScaleR(Real(1, vec_len, 0), SumR(MapArr(RPow4, X_complex8_angl(X8)))),
         vec_len, ColSquareR(SumR(MapArr(RSquare, X_complex8_angl(X8)))))
F32(X8, vec_len) ==
    CumR(MeanR(MapArr(RPow4, RAbsArr(X_complex8_angl(X8)))), vec_len,
         ColSquareR(SumR(MapArr(RSquare, RAbsArr(X_complex8_angl(X8))))))

dict_next16features(X8, vec_len) ==
    LET d1  == DictSet(<<>>, "f17", F17(X8, vec_len))
        d2  == DictSet(d1, "f18", F18(X8, vec_len))
        d3  == DictSet(d2, "f19", F19(X8, vec_len))
        d4  == DictSet(d3, "f20", F20(X8, vec_len))
        d5  == DictSet(d4, "f21", F21(X8, vec_len))
        d6  == DictSet(d5, "f22", F22(X8, vec_len))
        d7  == DictSet(d6, "f23", F23(X8, vec_len))
        d8  == DictSet(d7, "f24", F24(X8, vec_len))
        d9  == DictSet(d8, "f25", F25(X8, vec_len))
        d10 == DictSet(d9, "f26", F26(X8, vec_len))
        d11 == DictSet(d10, "f27", F27(X8, vec_len))
        d12 == DictSet(d11, "f28", F28(X8, vec_len))
        d13 == DictSet(d12, "f29", F29(X8, vec_len))
        d14 == DictSet(d13, "f30", F30(X8, vec_len))
        d15 == DictSet(d14, "f31", F31(X8, vec_len))
    IN  DictSet(d15, "f32", F32(X8, vec_len))

\* the part of form_next16_features after the loop
Next16Of(X8, shp) ==
    HStackAbs(DictValues(dict_next16features(X8, shp[3])), shp[1])

form_next16_features(A, shp) ==
    LET built == BuildComplex(A, shp)
    IN  IF ~built.ok THEN built
        ELSE IF \E k \in 0..(shp[3] - 1) : ~InRange(shift_by(k, shp[3]), shp[3])
             THEN Raise("IndexError")
        ELSE Return(Next16Of(
                 LagLoop([src |-> built.val, out |-> Zeros(shp[1], shp[3])],
                         shp[1] * shp[3], shp[3]).out, shp))

\* np.concatenate((a, b), axis = 0)
Concatenate0(a, b) ==
    LET na == Cardinality(DOMAIN a)
        nb == Cardinality(DOMAIN b)
    IN  [n \in 0..(na + nb - 1) |-> IF n < na THEN a[n] ELSE b[n - na]]

\* np.concatenate((a, b), axis = 1)
Concatenate1(a, b) ==
    LET la == RowLen(a)
        lb == RowLen(b)
    IN  [n \in DOMAIN a |->
            [j \in 0..(la + lb - 1) |-> IF j < la THEN a[n][j] ELSE b[n][j - la]]]

(***************************************************************************)
(* The input batches.  A cell is one I/Q pair.  Small batches are all the  *)
(* arrays over Cells; larger ones hold one test signal (a constant tone, a *)
(* tone with one marked position, a rotating unit vector) among constant   *)
(* tones.  A batch with other than 2 channels (a small one) keeps I in     *)
(* channel 0, Q in channel 1 and 1 in any further channel.                 *)
(***************************************************************************)
Cells == {<<0, 0>>, <<1, 0>>, <<0, 1>>, <<-1, 0>>, <<0, -1>>, <<2, 0>>}

\* the constant tones that fill the other rows of a larger batch
FillCells == {<<0, 0>>, <<2, 0>>}

\* the values a marked position of a tone takes
MarkCells == {<<1, 0>>, <<0, -1>>, <<2, 0>>}

Unit(q) == CASE q = 0 -> <<1, 0>> [] q = 1 -> <<0, 1>>
             [] q = 2 -> <<-1, 0>> [] q = 3 -> <<0, -1>>

ConstRow(c, L) == [k \in 0..(L - 1) |-> c]
MarkRow(b, p, m, L) == [k \in 0..(L - 1) |-> IF k = p THEN m ELSE b]
RotRow(s, L) == [k \in 0..(L - 1) |-> Unit((k + s) % 4)]

TestRows(L) ==
    {ConstRow(c, L) : c \in Cells}
    \cup {MarkRow(<<0, 1>>, p, m, L) : p \in 0..(L - 1), m \in MarkCells}
    \cup {RotRow(s, L) : s \in 0..3}

CellBatches(N, L) ==
    IF N * L <= FullCells
    THEN [0..(N - 1) -> [0..(L - 1) -> Cells]]
    ELSE {[n \in 0..(N - 1) |-> IF n = i THEN r ELSE ConstRow(cs[n], L)] :
             i \in 0..(N - 1), r \in TestRows(L), cs \in [0..(N - 1) -> FillCells]}

ToBatch(B, N, C, L) ==
    [n \in 0..(N - 1) |-> [c \in 0..(C - 1) |-> [k \in 0..(L - 1) |->
        IF c = 0 THEN B[n][k][1] ELSE IF c = 1 THEN B[n][k][2] ELSE 1]]]

Shapes ==
    {s \in (1..MaxN) \X (1..MaxChan) \X (0..MaxL) :
        s[2] # 2 => s[1] * s[3] <= OddCells}

NoExc == [ff |-> "", fn |-> "", cat |-> ""]

\* before the data-preparation cells have run, none of their names is bound
NoData ==
    /\ Xd_digital = None
    /\ Xd_shuffled = None
    /\ dict_test = None
    /\ dict_train = None
    /\ X_train = None
    /\ y_train = None
    /\ X_test = None
    /\ y_test = None
    /\ X_test16 = None
    /\ X_32test = None
    /\ sc = None
    /\ X_train_std = None
    /\ X_test_std = None
    /\ X_32train_std = None
    /\ X_32test_std = None
    /\ snr_i = 0
    /\ raised = ""

Init ==
    /\ \E s \in Shapes : \E B \in CellBatches(s[1], s[3]) :
          /\ shape = s
          /\ X = ToBatch(B, s[1], s[2], s[3])
    /\ pc = "form_features"
    /\ X_complex = None
    /\ X_complex_8lag = None
    /\ samp_num = 0
    /\ clmn = 0
    /\ X_16 = None
    /\ X_next16 = None
    /\ X_32 = None
    /\ exc = NoExc
    /\ todo = {}
    /\ writes = None
    /\ NoData

(***************************************************************************)
(* The notebook's cells, run in order on one batch.                        *)
(***************************************************************************)
\* X_16_train = form_features(X_train)
FormFeatures ==
    /\ UNCHANGED data
    /\ pc = "form_features"
    /\ LET res == form_features(X, shape)
       IN  /\ X_16' = res.val
           /\ exc' = [exc EXCEPT !.ff = res.err]
    /\ pc' = "form_next16"
    /\ UNCHANGED <<X, shape, X_complex, X_complex_8lag, samp_num, clmn,
                   X_next16, X_32, todo, writes>>

\* form_next16_features(X_train) up to the loop
NextBuild ==
    /\ UNCHANGED data
    /\ pc = "form_next16"
    /\ LET built == BuildComplex(X, shape)
       IN  IF built.ok
           THEN /\ X_complex' = built.val
                /\ X_complex_8lag' = Zeros(shape[1], shape[3])
                /\ writes' = [n \in 0..(shape[1] - 1) |->
                                 [k \in 0..(shape[3] - 1) |-> 0]]
                /\ pc' = "lag_loop"
                /\ exc' = exc
           ELSE /\ exc' = [exc EXCEPT !.fn = built.err]
                /\ pc' = "concatenate"
                /\ UNCHANGED <<X_complex, X_complex_8lag, writes>>
    /\ samp_num' = 0
    /\ clmn' = 0
    /\ UNCHANGED <<X, shape, X_16, X_next16, X_32, todo>>

\* one iteration of the loop over (samp_num, clmn)
LagStep ==
    /\ UNCHANGED data
    /\ pc = "lag_loop"
    /\ LET vec_len == shape[3]
           last == samp_num = shape[1] - 1 /\ clmn = vec_len - 1
       IN  IF InRange(shift_by(clmn, vec_len), vec_len)
           THEN LET st == LagBody(X_complex, X_complex_8lag, samp_num, clmn, vec_len)
                IN  /\ X_complex' = st.src
                    /\ X_complex_8lag' = st.out
                    /\ writes' = [writes EXCEPT ![samp_num][clmn] = @ + 1]
                    /\ samp_num' = IF ~last /\ clmn = vec_len - 1
                                   THEN samp_num + 1 ELSE samp_num
                    /\ clmn' = IF last THEN clmn
                               ELSE IF clmn = vec_len - 1 THEN 0 ELSE clmn + 1
                    /\ pc' = IF last THEN "next16_features" ELSE "lag_loop"
                    /\ exc' = exc
           ELSE /\ exc' = [exc EXCEPT !.fn = "IndexError"]
                /\ pc' = "concatenate"
                /\ UNCHANGED <<X_complex, X_complex_8lag, writes, samp_num, clmn>>
    /\ UNCHANGED <<X, shape, X_16, X_next16, X_32, todo>>

\* the features of the lagged array, returned as X_next16_train
NextFeatures ==
    /\ UNCHANGED data
    /\ pc = "next16_features"
    /\ X_next16' = Next16Of(X_complex_8lag, shape)
    /\ pc' = "concatenate"
    /\ UNCHANGED <<X, shape, X_complex, X_complex_8lag, samp_num, clmn,
                   X_16, X_32, exc, todo, writes>>

\* X_32_train = np.concatenate((X_16_train, X_next16_train), axis = 1)
Concatenate ==
    /\ UNCHANGED data
    /\ pc = "concatenate"
    /\ IF X_16 = None \/ X_next16 = None
       THEN /\ exc' = [exc EXCEPT !.cat = "NameError"]
            /\ X_32' = None
       ELSE /\ X_32' = Concatenate1(X_16, X_next16)
            /\ exc' = exc
    /\ pc' = "done"
    /\ UNCHANGED <<X, shape, X_complex, X_complex_8lag, samp_num, clmn,
                   X_16, X_next16, todo, writes>>

Next == FormFeatures \/ NextBuild \/ LagStep \/ NextFeatures \/ Concatenate

Spec == Init /\ [][Next]_vars

(***************************************************************************)
(* The same computation with the order left open: form_features and        *)
(* form_next16_features run concurrently on the one input batch, and the   *)
(* iterations (samp_num, clmn) of the lag loop run in any order.  Here pc  *)
(* holds one position per path.                                            *)
(***************************************************************************)
ParCellSet == {<<1, 0>>, <<0, 1>>, <<2, 0>>}

ParShapes == {s \in (1..MaxN) \X {2} \X (1..MaxL) : s[1] * s[3] <= ParCells}

InitPar ==
    /\ \E s \in ParShapes :
          \E B \in [0..(s[1] - 1) -> [0..(s[3] - 1) -> ParCellSet]] :
              /\ shape = s
              /\ X = ToBatch(B, s[1], s[2], s[3])
    /\ pc = [ff |-> "form_features", fn |-> "form_next16", cat |-> "concatenate"]
    /\ X_complex = None
    /\ X_complex_8lag = None
    /\ samp_num = 0
    /\ clmn = 0
    /\ X_16 = None
    /\ X_next16 = None
    /\ X_32 = None
    /\ exc = NoExc
    /\ todo = {}
    /\ writes = None
    /\ NoData

ParFormFeatures ==
    /\ UNCHANGED data
    /\ pc.ff = "form_features"
    /\ X_16' = form_features(X, shape).val
    /\ pc' = [pc EXCEPT !.ff = "returned"]
    /\ UNCHANGED <<X, shape, X_complex, X_complex_8lag, samp_num, clmn,
                   X_next16, X_32, exc, todo, writes>>

ParNextBuild ==
    /\ UNCHANGED data
    /\ pc.fn = "form_next16"
    /\ X_complex' = BuildComplex(X, shape).val
    /\ X_complex_8lag' = Zeros(shape[1], shape[3])
    /\ writes' = [n \in 0..(shape[1] - 1) |-> [k \in 0..(shape[3] - 1) |-> 0]]
    /\ todo' = (0..(shape[1] - 1)) \X (0..(shape[3] - 1))
    /\ pc' = [pc EXCEPT !.fn = "lag_loop"]
    /\ UNCHANGED <<X, shape, samp_num, clmn, X_16, X_next16, X_32, exc>>

\* the loop body for any cell that is still to do
ParLagCell ==
    /\ UNCHANGED data
    /\ pc.fn = "lag_loop"
    /\ \E c \in todo :
          LET st == LagBody(X_complex, X_complex_8lag, c[1], c[2], shape[3])
          IN  /\ X_complex' = st.src
              /\ X_complex_8lag' = st.out
              /\ writes' = [writes EXCEPT ![c[1]][c[2]] = @ + 1]
              /\ todo' = todo \ {c}
              /\ pc' = [pc EXCEPT !.fn = IF todo = {c} THEN "next16_features"
                                                      ELSE "lag_loop"]
    /\ UNCHANGED <<X, shape, samp_num, clmn, X_16, X_next16, X_32, exc>>

ParNextFeatures ==
    /\ UNCHANGED data
    /\ pc.fn = "next16_features"
    /\ X_next16' = Next16Of(X_complex_8lag, shape)
    /\ pc' = [pc EXCEPT !.fn = "returned"]
    /\ UNCHANGED <<X, shape, X_complex, X_complex_8lag, samp_num, clmn,
                   X_16, X_32, exc, todo, writes>>

ParConcatenate ==
    /\ UNCHANGED data
    /\ pc.ff = "returned" /\ pc.fn = "returned" /\ pc.cat = "concatenate"
    /\ X_32' = Concatenate1(X_16, X_next16)
    /\ pc' = [pc EXCEPT !.cat = "done"]
    /\ UNCHANGED <<X, shape, X_complex, X_complex_8lag, samp_num, clmn,
                   X_16, X_next16, exc, todo, writes>>

NextPar ==
    ParFormFeatures \/ ParNextBuild \/ ParLagCell \/ ParNextFeatures
        \/ ParConcatenate

SpecPar == InitPar /\ [][NextPar]_vars

(***************************************************************************)
(* The notebook's cells, run in order on a batch of several samples, each  *)
(* sample one of a few signals: silence, a constant tone, a rotating unit  *)
(* vector, a tone with its first position marked.                          *)
(***************************************************************************)
RowKinds(L) ==
    {ConstRow(<<0, 0>>, L), ConstRow(<<2, 0>>, L), RotRow(0, L),
     MarkRow(<<0, 1>>, 0, <<0, -1>>, L)}

RowShapes == (2..MaxN) \X {2} \X (1..MaxL)

InitRows ==
    /\ \E s \in RowShapes : \E B \in [0..(s[1] - 1) -> RowKinds(s[3])] :
          /\ shape = s
          /\ X = ToBatch(B, s[1], s[2], s[3])
    /\ pc = "form_features"
    /\ X_complex = None
    /\ X_complex_8lag = None
    /\ samp_num = 0
    /\ clmn = 0
    /\ X_16 = None
    /\ X_next16 = None
    /\ X_32 = None
    /\ exc = NoExc
    /\ todo = {}
    /\ writes = None
    /\ NoData

SpecRows == InitRows /\ [][Next]_vars

(***************************************************************************)
(* The notebook's cells, run in order on a batch of one sample.            *)
(***************************************************************************)
SampleShapes == {1} \X {2} \X (1..MaxL)

InitSample ==
    /\ \E s \in SampleShapes : \E B \in [0..0 -> TestRows(s[3])] :
          /\ shape = s
          /\ X = ToBatch(B, s[1], s[2], s[3])
    /\ pc = "form_features"
    /\ X_complex = None
    /\ X_complex_8lag = None
    /\ samp_num = 0
    /\ clmn = 0
    /\ X_16 = None
    /\ X_next16 = None
    /\ X_32 = None
    /\ exc = NoExc
    /\ todo = {}
    /\ writes = None
    /\ NoData

SpecSample == InitSample /\ [][Next]_vars

(***************************************************************************)
(* The data-preparation cells of the notebook.  A sample is named by where *)
(* it comes from, [mod, snr, j]: sample j of the dataset's key (mod, snr); *)
(* Raw gives its (2, SigLen) array.  A dict is the sequence of its items   *)
(* [k, v] in insertion order, an array of samples or labels a sequence, a  *)
(* defaultdict keyed by SNR a function on the SNRs assigned so far.        *)
(***************************************************************************)
\* the digital modulations and the SNRs of the dataset, sorted
AllMods == <<"8PSK", "BPSK", "CPFSK", "GFSK", "PAM4", "QAM16", "QAM64", "QPSK">>
ModNames == SubSeq(AllMods, 1, NMods)
SnrValues == [i \in 1..NSnrs |-> 2 * i - 22]

\* list.index
Index(list, x) == (CHOOSE i \in 1..Len(list) : list[i] = x) - 1

\* the keys of the dataset in the order the pickled dict holds them
ModMajor ==
    [i \in 1..(NMods * NSnrs) |->
        <<ModNames[((i - 1) \div NSnrs) + 1], SnrValues[((i - 1) % NSnrs) + 1]>>]
Reversed(list) == [i \in 1..Len(list) |-> list[Len(list) + 1 - i]]
KeyOrders == {ModMajor, Reversed(ModMajor)}

\* Xd_digital with m samples under every key
Dataset(m, order) ==
    [i \in 1..Len(order) |->
        [k |-> order[i],
         v |-> [j \in 1..m |-> [mod |-> order[i][1], snr |-> order[i][2], j |-> j]]]]

\* the array of a sample: the magnitude and the phase of its first position
\* and the larger magnitude of its other positions tell the samples apart
Ordinal(smp) ==
    (Index(ModNames, smp.mod) * NSnrs + Index(SnrValues, smp.snr)) * MaxM + (smp.j - 1)
Raw(smp) ==
    LET o == Ordinal(smp)
        first == 1 + (o % 3)
        phase == Unit((o \div 3) % 3)
        other == 4 + ((o \div 9) % 4)
    IN  [c \in 0..1 |-> [k \in 0..(SigLen - 1) |->
            IF k = 0 THEN first * phase[c + 1] ELSE IF c = 0 THEN other ELSE 0]]

\* the (N, 2, SigLen) array of a sequence of samples, and its shape
RawBatch(smps) == [n \in 0..(Len(smps) - 1) |-> Raw(smps[n + 1])]
RawShape(smps) == <<Len(smps), 2, SigLen>>

\* dict[key]
Get(dict, key) == dict[CHOOSE i \in DOMAIN dict : dict[i].k = key].v
\* defaultdict[key] = v
Put(dict, key, v) == [x \in (DOMAIN dict) \cup {key} |-> IF x = key THEN v ELSE dict[x]]

\* np.vstack of a list of arrays of samples
RECURSIVE VStack(_)
VStack(list) == IF list = <<>> THEN <<>> ELSE Head(list) \o VStack(Tail(list))

\* sorted(list(set(...))) of the modulations and of the SNRs of a dict's keys
SortedMods(dict) ==
    SelectSeq(AllMods, LAMBDA m : \E i \in DOMAIN dict : dict[i].k[1] = m)
SortedSnrs(dict) ==
    SelectSeq(SnrValues, LAMBDA s : \E i \in DOMAIN dict : dict[i].k[2] = s)

\* the orders sklearn.utils.shuffle leaves n rows in, of which the model
\* tries the identity, the reversal and the rotation by one place
Shuffles(n) ==
    {[i \in 1..n |-> i], [i \in 1..n |-> n + 1 - i], [i \in 1..n |-> (i % n) + 1]}

\* shuffle(v): the rows of v in the order p
shuffle(v, p) == [i \in 1..Len(v) |-> v[p[i]]]

\* shuffle(a, b) with the labels left in place
shuffle2_apart(a, b, p) == [a |-> shuffle(a, p), b |-> b]

\* shuffle(a, b): one order for both arrays
shuffle2(a, b, p) == [a |-> shuffle(a, p), b |-> shuffle(b, p)]

\* int(v.shape[0]*0.5)
IntHalf(n) == n \div 2

\* v[:int(v.shape[0]*0.5), :]
TestPart(v) == SubSeq(v, 1, IntHalf(Len(v)))

\* v[:, :]
TrainPartWhole(v) == SubSeq(v, 1, Len(v))

\* v[int(v.shape[0]*0.5):, :]
TrainPart(v) == SubSeq(v, IntHalf(Len(v)) + 1, Len(v))

\* sc kept from the cell before, where there is one
StandardScalerKept == IF sc = None THEN [fits |-> <<>>] ELSE sc

\* StandardScaler(): a new scaler, fit on nothing; fits is the sequence of
\* the matrices a scaler has been fit on
StandardScaler == [fits |-> <<>>]
Fit(scaler, name, M) ==
    [scaler EXCEPT !.fits = Append(@, [on |-> name, cols |-> RowLen(M), M |-> M])]
Transform(scaler, M) ==
    IF scaler.fits = <<>> THEN Raise("NotFittedError")
    ELSE IF scaler.fits[Len(scaler.fits)].cols # RowLen(M) THEN Raise("ValueError")
    ELSE Return([of |-> M, by |-> scaler.fits])

\* snrs, mods = sorted SNRs and modulations of dict_train's keys
mods == SortedMods(dict_train)
snrs == SortedSnrs(dict_train)

\* form_test_data(snr): the test samples of one SNR and their label indices
form_test_data(dict, snr, names) ==
    LET hits == SelectSeq(dict, LAMBDA item : item.k[2] = snr)
        test_data == VStack([i \in 1..Len(hits) |-> hits[i].v])
        test_labels ==
            VStack([i \in 1..Len(hits) |->
                       [x \in 1..Len(hits[i].v) |-> hits[i].k[1]]])
    IN  IF test_labels = <<>> THEN Raise("ValueError")
        ELSE Return([data |-> test_data,
                     labels |-> [x \in 1..Len(test_data) |->
                                    Index(names, test_labels[x])]])

\* the names of the feature functions' own cells, which these cells leave alone
idle == <<X_complex, X_complex_8lag, samp_num, clmn, exc, todo, writes>>

InitData ==
    /\ \E m \in 1..MaxM : \E order \in KeyOrders : Xd_digital = Dataset(m, order)
    /\ Xd_shuffled = None
    /\ dict_test = None
    /\ dict_train = None
    /\ X_train = None
    /\ y_train = None
    /\ X_test = None
    /\ y_test = None
    /\ X_test16 = None
    /\ X_32test = None
    /\ sc = None
    /\ X_train_std = None
    /\ X_test_std = None
    /\ X_32train_std = None
    /\ X_32test_std = None
    /\ snr_i = 1
    /\ raised = ""
    /\ pc = "split"
    /\ X = None
    /\ shape = None
    /\ X_16 = None
    /\ X_next16 = None
    /\ X_32 = None
    /\ X_complex = None
    /\ X_complex_8lag = None
    /\ samp_num = 0
    /\ clmn = 0
    /\ exc = NoExc
    /\ todo = {}
    /\ writes = None

\* the cell that shuffles the samples of every key (random_state=0: one
\* order for all arrays of one length) and splits them
Split ==
    /\ pc = "split"
    /\ \E p \in Shuffles(Len(Xd_digital[1].v)) :
          LET shuffled == [i \in DOMAIN Xd_digital |->
                              [k |-> Xd_digital[i].k, v |-> shuffle(Xd_digital[i].v, p)]]
          IN  /\ Xd_shuffled' = shuffled
              /\ dict_test' = [i \in DOMAIN shuffled |->
                                  [k |-> shuffled[i].k, v |-> TestPart(shuffled[i].v)]]
              /\ dict_train' = [i \in DOMAIN shuffled |->
                                   [k |-> shuffled[i].k, v |-> TrainPart(shuffled[i].v)]]
    /\ pc' = "assemble"
    /\ UNCHANGED <<Xd_digital, X_train, y_train, X_test, y_test, X_test16, X_32test,
                   sc, X_train_std, X_test_std, X_32train_std, X_32test_std,
                   snr_i, raised, X, shape, X_16, X_next16, X_32, idle>>

\* the cell that stacks the training samples, modulation by modulation and
\* SNR by SNR, and their labels
AssembleTrain ==
    /\ pc = "assemble"
    /\ LET pairs == [i \in 1..(Len(mods) * Len(snrs)) |->
                        <<mods[((i - 1) \div Len(snrs)) + 1],
                          snrs[((i - 1) % Len(snrs)) + 1]>>]
           labels_train ==
               VStack([i \in 1..Len(pairs) |->
                          [x \in 1..Len(Get(dict_train, pairs[i])) |-> pairs[i]]])
       IN  /\ X_train' = VStack([i \in 1..Len(pairs) |-> Get(dict_train, pairs[i])])
           /\ y_train' = [x \in 1..Len(labels_train) |->
                             Index(mods, labels_train[x][1])]
    /\ pc' = "train16"
    /\ UNCHANGED <<Xd_digital, Xd_shuffled, dict_test, dict_train, X_test, y_test,
                   X_test16, X_32test, sc, X_train_std, X_test_std, X_32train_std,
                   X_32test_std, snr_i, raised, X, shape, X_16, X_next16, X_32, idle>>

\* the cell that shuffles the training set, forms its 16 features, fits a
\* new scaler on them and standardizes them
PreprocessTrain16 ==
    /\ pc = "train16"
    /\ \E p \in Shuffles(Len(X_train)) :
          LET both == shuffle2(X_train, y_train, p)
          IN  \E X_16_train \in {form_features(RawBatch(both.a), RawShape(both.a)).val} :
              \E fitted \in {Fit(StandardScaler, "X_16_train", X_16_train)} :
              /\ X_train' = both.a
              /\ y_train' = both.b
              /\ X' = RawBatch(both.a)
              /\ shape' = RawShape(both.a)
              /\ X_16' = X_16_train
              /\ sc' = fitted
              /\ X_train_std' = Transform(fitted, X_16_train).val
    /\ pc' = "test16"
    /\ UNCHANGED <<Xd_digital, Xd_shuffled, dict_test, dict_train, X_test, y_test,
                   X_test16, X_32test, X_test_std, X_32train_std, X_32test_std,
                   snr_i, raised, X_next16, X_32, idle>>

\* one iteration of the loop over snrs that forms, shuffles and standardizes
\* the 16-feature test set of one SNR
PreprocessTest16 ==
    /\ pc = "test16"
    /\ LET snr == snrs[snr_i]
           formed == form_test_data(dict_test, snr, mods)
       IN  IF ~formed.ok
           THEN /\ raised' = formed.err
                /\ pc' = "halt"
                /\ UNCHANGED <<X_test, y_test, X_test16, X_test_std, snr_i>>
           ELSE \E p \in Shuffles(Len(formed.val.data)) :
                   LET both == shuffle2(formed.val.data, formed.val.labels, p)
                   IN  \E feats \in {form_features(RawBatch(both.a), RawShape(both.a)).val} :
                       /\ X_test' = Put(X_test, snr, both.a)
                       /\ y_test' = Put(y_test, snr, both.b)
                       /\ X_test16' = Put(X_test16, snr, feats)
                       /\ X_test_std' = Put(X_test_std, snr, Transform(sc, feats).val)
                       /\ snr_i' = IF snr_i = Len(snrs) THEN 1 ELSE snr_i + 1
                       /\ pc' = IF snr_i = Len(snrs) THEN "train32" ELSE "test16"
                       /\ raised' = raised
    /\ UNCHANGED <<Xd_digital, Xd_shuffled, dict_test, dict_train, X_train, y_train,
                   X_32test, sc, X_train_std, X_32train_std, X_32test_std,
                   X, shape, X_16, X_next16, X_32, idle>>

\* the cell that forms the next 16 features of the training set, joins the
\* two blocks, fits a new scaler on the 32 columns and standardizes them
PreprocessTrain32 ==
    /\ pc = "train32"
    /\ \E X_next16_train \in {form_next16_features(X, shape).val} :
       \E X_32_train \in {Concatenate1(X_16, X_next16_train)} :
       \E fitted \in {Fit(StandardScaler, "X_32_train", X_32_train)} :
           /\ X_next16' = X_next16_train
           /\ X_32' = X_32_train
           /\ sc' = fitted
           /\ X_32train_std' = Transform(fitted, X_32_train).val
    /\ pc' = "test32"
    /\ UNCHANGED <<Xd_digital, Xd_shuffled, dict_test, dict_train, X_train, y_train,
                   X_test, y_test, X_test16, X_32test, X_train_std, X_test_std,
                   X_32test_std, snr_i, raised, X, shape, X_16, idle>>

\* one iteration of the loop over snrs that forms and standardizes the
\* 32-feature test set of one SNR
PreprocessTest32 ==
    /\ pc = "test32"
    /\ LET snr == snrs[snr_i]
           X_next16test ==
               form_next16_features(RawBatch(X_test[snr]), RawShape(X_test[snr])).val
       IN  \E joined \in {Concatenate1(X_test16[snr], X_next16test)} :
           /\ X_32test' = Put(X_32test, snr, joined)
           /\ X_32test_std' = Put(X_32test_std, snr, Transform(sc, joined).val)
    /\ snr_i' = IF snr_i = Len(snrs) THEN 1 ELSE snr_i + 1
    /\ pc' = IF snr_i = Len(snrs) THEN "stored" ELSE "test32"
    /\ UNCHANGED <<Xd_digital, Xd_shuffled, dict_test, dict_train, X_train, y_train,
                   X_test, y_test, X_test16, sc, X_train_std, X_test_std,
                   X_32train_std, raised, X, shape, X_16, X_next16, X_32, idle>>

NextData ==
    Split \/ AssembleTrain \/ PreprocessTrain16 \/ PreprocessTest16
        \/ PreprocessTrain32 \/ PreprocessTest32

SpecData == InitData /\ [][NextData]_vars

(***************************************************************************)
(* Properties.                                                             *)
(***************************************************************************)
\* z[n][k] = X[n,0,k] + i*X[n,1,k]
ZOf(n, k) == complex(X[n][0][k], X[n][1][k])

SampleIds == 0..(shape[1] - 1)
Columns == 0..(shape[3] - 1)

\* the lag loop has written every cell
LagDone == pc \in {"next16_features", "concatenate", "done"} /\ exc.fn = ""

\* C1: every written entry of the lagged array is z[n][k] * z[n][(k+8) mod L],
\* the wrapped index lying in the same sample; for L = 128 index 127 is
\* paired with index 7.
C1_LaggedProduct ==
    /\ shift_by(127, 128) = 7
    /\ X_complex_8lag # None =>
          \A n \in SampleIds : \A k \in Columns :
              (writes[n][k] > 0 \/ LagDone) =>
                  LET a == ZOf(n, k)
                      b == ZOf(n, (k + 8) % shape[3])
                  IN  X_complex_8lag[n][k] =
                          [re |-> a.re * b.re - a.im * b.im,
                           im |-> a.re * b.im + a.im * b.re]

\* two different samples of length 10, all cells written, the last one wrapped
C1_Witness ==
    /\ LagDone
    /\ shape = <<2, 2, 10>>
    /\ X[0] # X[1]
    /\ X_complex_8lag[1][9] = ZMul(ZOf(1, 9), ZOf(1, 7))
    /\ X_complex_8lag[1][9] # ZMul(ZOf(1, 9), ZOf(0, 7))

(***************************************************************************)
(* The 16-entry table of statistics of a sequence, n its length.           *)
(***************************************************************************)
RowMap(Op(_), row) == [k \in DOMAIN row |-> Op(row[k])]
RowN(row) == Cardinality(DOMAIN row)
RowSumR(row) == RSumTo(row, RowN(row))
RowSumZ(row) == CReal(ZSumTo(row, RowN(row)))
RowMeanR(row) == RMul(Real(1, RowN(row), 0), RowSumR(row))
RowMeanZ(row) == CScale(Real(1, RowN(row), 0), RowSumZ(row))
InvNSq(row) == Real(1, RowN(row) * RowN(row), 0)

RowAbs(row) == RowMap(RFromAbs, row)
RowAngle(row) == RowMap(Angle, row)
RowAbsAngle(row) == RowMap(RAbs, RowAngle(row))

TableStat(j, row) ==
    CASE j = 1  -> RowMeanZ(row)
      [] j = 2  -> RowMeanR(RowAbs(row))
      [] j = 3  -> RowMeanR(RowAngle(row))
      [] j = 4  -> RowMeanR(RowAbsAngle(row))
      [] j = 5  -> RowMeanZ(RowMap(ZSquare, row))
      [] j = 6  -> RowMeanR(RowMap(RSquare, RowAbs(row)))
      [] j = 7  -> RowMeanR(RowMap(RSquare, RowAngle(row)))
      [] j = 8  -> RowMeanR(RowMap(RSquare, RowAbsAngle(row)))
      [] j = 9  -> CSub(RowMeanZ(RowMap(ZSquare, row)),
                        CScale(InvNSq(row), CSquare(RowSumZ(row))))
      [] j = 10 -> RSub(RowMeanR(RowMap(RSquare, RowAbs(row))),
                        RMul(InvNSq(row), RSquare(RowSumR(RowAbs(row)))))
      [] j = 11 -> RSub(RowMeanR(RowMap(RSquare, RowAngle(row))),
                        RMul(InvNSq(row), RSquare(RowSumR(RowAngle(row)))))
      [] j = 12 -> RSub(RowMeanR(RowMap(RSquare, RowAbsAngle(row))),
                        RMul(InvNSq(row), RSquare(RowSumR(RowAbsAngle(row)))))
      [] j = 13 -> CSub(RowMeanZ(RowMap(ZPow4, row)),
                        CScale(InvNSq(row), CSquare(RowSumZ(RowMap(ZSquare, row)))))
      [] j = 14 -> RSub(RowMeanR(RowMap(RPow4, RowAbs(row))),
                        RMul(InvNSq(row),
                             RSquare(RowSumR(RowMap(RSquare, RowAbs(row))))))
      [] j = 15 -> RSub(RowMeanR(RowMap(RPow4, RowAngle(row))),
                        RMul(InvNSq(row),
                             RSquare(RowSumR(RowMap(RSquare, RowAngle(row))))))
      [] j = 16 -> RSub(RowMeanR(RowMap(RPow4, RowAbsAngle(row))),
                        RMul(InvNSq(row),
                             RSquare(RowSumR(RowMap(RSquare, RowAbsAngle(row))))))

\* the raw sequence of sample n
ZRow(n) == [k \in Columns |-> ZOf(n, k)]

\* C2: column j of form_features is the absolute value of statistic j+1 of
\* the table on the raw sequence z, and column j of form_next16_features the
\* absolute value of statistic j+1 on the lagged product, in the table order
\* f1..f16 and f17..f32, with n = L (checked where each function returns).
C2_TableOrder ==
    /\ pc = "form_next16" /\ X_16 # None =>
          \A n \in SampleIds : \A j \in 0..15 :
              /\ DOMAIN X_16[n] = 0..15
              /\ X_16[n][j] = NpAbs(TableStat(j + 1, ZRow(n)))
    /\ pc = "concatenate" /\ X_next16 # None =>
          \A n \in SampleIds : \A j \in 0..15 :
              /\ DOMAIN X_next16[n] = 0..15
              /\ RowN(X_complex_8lag[n]) = shape[3]
              /\ X_next16[n][j] = NpAbs(TableStat(j + 1, X_complex_8lag[n]))

\* both blocks formed for a sample whose columns tell statistics 1, 2, 6 and
\* 10 apart, 3 from 4, and 2 from 6 in the lag-8 block
C2_Witness ==
    /\ X_16 # None
    /\ X_next16 # None
    /\ \E n \in SampleIds :
          /\ Cardinality({X_16[n][0], X_16[n][1], X_16[n][5], X_16[n][9]}) = 4
          /\ X_16[n][2] # X_16[n][3]
          /\ X_next16[n][1] # X_next16[n][5]

\* the batch of the one sample i, and its shape
Single(i) == [m \in {0} |-> X[i]]
SingleShape == <<1, shape[2], shape[3]>>

\* C3: for a batch of shape (N, 2, L), N >= 1 and L >= 1, each block has N
\* rows and 16 columns, the concatenation N rows and 32 columns, columns
\* 0-15 the lag-0 block and 16-31 the lag-8 block, and row i is what the two
\* functions compute from sample i alone.
C3_ShapeAndOrder ==
    (pc = "done" /\ shape[2] = 2 /\ shape[3] >= 1) =>
        /\ exc = NoExc
        /\ DOMAIN X_16 = SampleIds
        /\ DOMAIN X_next16 = SampleIds
        /\ DOMAIN X_32 = SampleIds
        /\ \A i \in SampleIds :
              /\ DOMAIN X_16[i] = 0..15
              /\ DOMAIN X_next16[i] = 0..15
              /\ DOMAIN X_32[i] = 0..31
              /\ \A j \in 0..15 : /\ X_32[i][j] = X_16[i][j]
                                  /\ X_32[i][16 + j] = X_next16[i][j]
              /\ X_16[i] = form_features(Single(i), SingleShape).val[0]
              /\ X_next16[i] = form_next16_features(Single(i), SingleShape).val[0]

\* a batch of two samples with different feature rows, concatenated
C3_Witness ==
    /\ pc = "done"
    /\ shape[1] = 2 /\ shape[2] = 2 /\ shape[3] >= 1
    /\ X_32 # None
    /\ X_32[0] # X_32[1]
    /\ \E j \in 16..31 : X_32[0][j] # X_32[1][j]

ZeroSample(n) == \A k \in Columns : X[n][0][k] = 0 /\ X[n][1][k] = 0

\* C4: for a sample whose I and Q are all zero, whatever the other samples,
\* all 16 statistics of form_features and all 16 of form_next16_features are
\* exactly 0.
C4_ZeroSample ==
    /\ pc = "form_next16" /\ X_16 # None =>
          \A n \in SampleIds : ZeroSample(n) => \A j \in 0..15 : X_16[n][j] = Zero
    /\ pc = "concatenate" /\ X_next16 # None =>
          \A n \in SampleIds : ZeroSample(n) => \A j \in 0..15 : X_next16[n][j] = Zero

\* a zero sample beside a sample whose statistics are not zero, both blocks formed
C4_Witness ==
    /\ pc = "concatenate"
    /\ X_16 # None /\ X_next16 # None
    /\ shape[1] = 2 /\ shape[3] >= 2
    /\ ZeroSample(1)
    /\ X_16[0][2] # Zero
    /\ X_next16[0][1] # Zero
    /\ \A j \in 0..15 : X_16[1][j] = Zero /\ X_next16[1][j] = Zero

\* z = 1, i, -1, -i
Rotating == (0 :> complex(1, 0)) @@ (1 :> complex(0, 1)) @@
            (2 :> complex(-1, 0)) @@ (3 :> complex(0, -1))

\* 0, 1, pi/4, pi/2, 0, 1, 3pi^2/8, 3pi^2/8, 0, 0, 5pi^2/16, pi^2/8, 1, 0,
\* 9pi^4/64, 9pi^4/64
RotatingFeatures ==
    (0 :> Real(0, 1, 0)) @@ (1 :> Real(1, 1, 0)) @@ (2 :> Real(1, 4, 1)) @@
    (3 :> Real(1, 2, 1)) @@ (4 :> Real(0, 1, 0)) @@ (5 :> Real(1, 1, 0)) @@
    (6 :> Real(3, 8, 2)) @@ (7 :> Real(3, 8, 2)) @@ (8 :> Real(0, 1, 0)) @@
    (9 :> Real(0, 1, 0)) @@ (10 :> Real(5, 16, 2)) @@ (11 :> Real(1, 8, 2)) @@
    (12 :> Real(1, 1, 0)) @@ (13 :> Real(0, 1, 0)) @@ (14 :> Real(9, 64, 4)) @@
    (15 :> Real(9, 64, 4))

\* C5: for the L = 4 sample I = [1,0,-1,0], Q = [0,1,0,-1] form_features
\* returns the 16 closed-form values, in order.
C5_RotatingVector ==
    (pc = "form_next16" /\ X_16 # None /\ shape[3] = 4) =>
        \A n \in SampleIds : ZRow(n) = Rotating => X_16[n] = RotatingFeatures

\* the batch of the rotating unit vector and an all-zero sample, after form_features
C5_Witness ==
    /\ pc = "form_next16"
    /\ shape = <<2, 2, 4>>
    /\ ZRow(0) = Rotating
    /\ ZeroSample(1)
    /\ X_16 # None
    /\ X_16[0][10] = Real(5, 16, 2)

\* sample n is the real constant c
RealTone(n, c) == \A k \in Columns : X[n][0][k] = c /\ X[n][1][k] = 0

\* C6: for a real constant sample c # 0 the angle is 0 (c > 0) or pi (c < 0)
\* at every index, statistics 3 and 4 are that angle a, 7 and 8 are a^2, and
\* 11, 12, 15 and 16 are 0.
C6_RealTone ==
    (pc = "form_next16" /\ X_16 # None) =>
        \A n \in SampleIds : \A c \in {-2, -1, 1, 2} :
            RealTone(n, c) =>
                LET a == IF c > 0 THEN Real(0, 1, 0) ELSE Real(1, 1, 1)
                    angl == X_complex_angl(BuildComplex(X, shape).val)
                IN  /\ \A k \in Columns : angl[n][k] = a
                    /\ X_16[n][2] = a
                    /\ X_16[n][3] = a
                    /\ X_16[n][6] = RMul(a, a)
                    /\ X_16[n][7] = RMul(a, a)
                    /\ X_16[n][10] = Zero
                    /\ X_16[n][11] = Zero
                    /\ X_16[n][14] = Zero
                    /\ X_16[n][15] = Zero

\* a negative real tone of length 10, after form_features: the angle is pi
C6_Witness ==
    /\ pc = "form_next16"
    /\ X_16 # None
    /\ shape[3] = 10
    /\ RealTone(0, -1)
    /\ X_16[0][3] = Real(1, 1, 1)
    /\ X_16[0][7] = Real(1, 1, 2)

\* C7: for every L >= 1, also L <= 8, the loop pairs index k with
\* (k + 8) mod L, which lies in 0..L-1, no index is out of range and the
\* function returns; when L divides 8 the lagged product is the
\* elementwise square of z.
C7_LagModulo ==
    /\ pc = "lag_loop" => shift_by(clmn, shape[3]) \in Columns
    /\ exc.fn # "IndexError" \/ shape[2] < 2
    /\ (pc \in {"concatenate", "done"} /\ shape[2] >= 2 /\ shape[3] >= 1) =>
           X_next16 # None
    /\ (LagDone /\ X_complex_8lag # None /\ LAG % shape[3] = 0) =>
           \A n \in SampleIds : \A k \in Columns :
               LET z == ZOf(n, k)
               IN  X_complex_8lag[n][k] =
                       [re |-> z.re * z.re - z.im * z.im, im |-> 2 * z.re * z.im]

\* a sample of length 4, shorter than the lag: the last cell is a square
C7_Witness ==
    /\ LagDone
    /\ shape[3] = 4
    /\ X_next16 # None
    /\ X_complex_8lag[0][3] = ZSquare(ZOf(0, 3))
    /\ X_complex_8lag[0][3] # complex(0, 0)
    /\ ZOf(0, 3) # ZOf(0, 0)

\* C8 (as claimed): whenever the channel dimension is not exactly 2, or the
\* sequence length is 0, form_features and form_next16_features fail and
\* return no feature matrix.
C8_ShapeError ==
    (shape[2] # 2 \/ shape[3] = 0) => (X_16 = None /\ X_next16 = None)

\* the batch that holds another sample in row j and agrees with X elsewhere
AltRows == {ConstRow(<<2, 0>>, shape[3]), RotRow(1, shape[3])}
AltSample(row) ==
    [c \in 0..(shape[2] - 1) |-> [k \in Columns |->
        IF c = 0 THEN row[k][1] ELSE IF c = 1 THEN row[k][2] ELSE 0]]
Variant(j, row) == [X EXCEPT ![j] = AltSample(row)]

\* C9: for two batches X and Y of the same shape with X[i] = Y[i], row i of
\* form_features(X) equals row i of form_features(Y), and row i of
\* form_next16_features(X) equals row i of form_next16_features(Y).
C9_RowIndependence ==
    (pc = "done" /\ X_32 # None) =>
        \A j \in SampleIds : \A row \in AltRows :
            LET Y == Variant(j, row)
                Y_16 == form_features(Y, shape).val
                Y_next16 == form_next16_features(Y, shape).val
            IN  \A i \in SampleIds \ {j} :
                    /\ Y[i] = X[i]
                    /\ Y_16[i] = X_16[i]
                    /\ Y_next16[i] = X_next16[i]

\* a batch of two samples, and a batch with the same row 0 whose row 1 and
\* whose features of row 1 are different
C9_Witness ==
    /\ pc = "done"
    /\ X_32 # None
    /\ shape[1] = 2
    /\ shape[3] = 10
    /\ X[0] # X[1]
    /\ \E row \in AltRows :
          LET Y == Variant(1, row)
          IN  /\ Y[1] # X[1]
              /\ form_features(Y, shape).val[1] # X_16[1]
              /\ form_next16_features(Y, shape).val[1] # X_next16[1]

\* every path of the open-order run has returned
ParDone == pc.ff = "returned" /\ pc.fn = "returned"

\* C10: no step writes the input batch X, the lag loop does not write
\* X_complex and writes each cell of X_complex_8lag exactly once, and
\* whatever the order of the loop iterations and of the two paths, the
\* matrices are those of the sequential run.
C10_OrderFree ==
    /\ [][/\ X' = X
          /\ X_complex # None => X_complex' = X_complex
          /\ writes # None =>
                \A n \in SampleIds : \A k \in Columns : writes'[n][k] <= 1]_vars
    /\ [](ParDone =>
            /\ X_16 = form_features(X, shape).val
            /\ X_next16 = form_next16_features(X, shape).val
            /\ \A n \in SampleIds : \A k \in Columns : writes[n][k] = 1)
    /\ [](pc.cat = "done" =>
            X_32 = Concatenate1(form_features(X, shape).val,
                                form_next16_features(X, shape).val))

\* the loop has written the last cell of a sample of length 3 before the
\* first one, and form_features has not run yet
C10_Witness ==
    /\ pc.fn = "lag_loop"
    /\ pc.ff = "form_features"
    /\ shape[3] = 3
    /\ writes[0][2] = 1
    /\ writes[0][0] = 0
    /\ X_complex_8lag[0][2] = ZMul(ZOf(0, 2), ZOf(0, 1))
    /\ ZOf(0, 1) # ZOf(0, 2)

\* the samples held by an array of samples
Samples(v) == {v[i] : i \in DOMAIN v}
NoRepeat(v) == Cardinality(Samples(v)) = Len(v)

\* every sample of the training set, and of the test sets formed so far
TrainSamples == IF X_train = None THEN {} ELSE Samples(X_train)
TestSamples == UNION {Samples(X_test[s]) : s \in DOMAIN X_test}

\* C11: for every (modulation, SNR) key with m samples, dict_test holds the
\* first floor(m/2) shuffled samples and dict_train the remaining
\* m - floor(m/2); the two are disjoint and together hold every sample of
\* the key exactly once; for even m the training part is half the samples;
\* and no sample is ever in both the training and the test data.
C11_SplitPartition ==
    /\ dict_train # None =>
          \A i \in DOMAIN Xd_digital :
              LET v == Xd_digital[i].v
                  m == Len(v)
                  w == Xd_shuffled[i].v
                  test == dict_test[i].v
                  train == dict_train[i].v
              IN  /\ Xd_shuffled[i].k = Xd_digital[i].k
                  /\ dict_test[i].k = Xd_digital[i].k
                  /\ dict_train[i].k = Xd_digital[i].k
                  /\ Len(w) = m /\ Samples(w) = Samples(v)
                  /\ Len(test) = m \div 2
                  /\ \A x \in 1..Len(test) : test[x] = w[x]
                  /\ Len(train) = m - (m \div 2)
                  /\ \A x \in 1..Len(train) : train[x] = w[(m \div 2) + x]
                  /\ Samples(test) \cap Samples(train) = {}
                  /\ Samples(test) \cup Samples(train) = Samples(v)
                  /\ NoRepeat(test) /\ NoRepeat(train)
                  /\ (m % 2 = 0 => 2 * Len(train) = m)
    /\ TrainSamples \cap TestSamples = {}
    /\ \A s \in DOMAIN X_test : NoRepeat(X_test[s])
    /\ X_train # None => NoRepeat(X_train)

\* an odd key of 3 samples, shuffled out of its order, split 1 : 2, with the
\* training set and every test set formed
C11_Witness ==
    /\ pc = "stored"
    /\ Len(Xd_digital[1].v) = 3
    /\ Xd_shuffled[1].v # Xd_digital[1].v
    /\ Len(dict_test[1].v) = 1
    /\ Len(dict_train[1].v) = 2
    /\ TrainSamples # {}
    /\ DOMAIN X_test = {snrs[i] : i \in 1..Len(snrs)}
    /\ \A s \in DOMAIN X_test : X_test[s] # <<>>

\* the record of a scaler fit once, on the named matrix M of the given width
FitOnce(by, name, M, width) ==
    /\ Len(by) = 1
    /\ by[1].on = name
    /\ by[1].M = M
    /\ by[1].cols = width
    /\ RowLen(M) = width

\* C12: when the cells run in order, every standardized matrix comes from a
\* scaler that had been fit exactly once, on the training feature matrix of
\* the same column count, when the transform was applied: the 16-column
\* training and test matrices from the scaler fit on X_16_train, the
\* 32-column ones from the scaler fit on X_32_train; the scaler changes only
\* in the two training cells, and no test matrix takes part in a fit.
C12_ScalerFitOnce ==
    /\ [][sc' # sc => (pc \in {"train16", "train32"} /\ Len(sc'.fits) = 1)]_vars
    /\ [](sc # None =>
             /\ Len(sc.fits) = 1
             /\ \/ sc.fits[1].on = "X_16_train" /\ sc.fits[1].M = X_16
                \/ sc.fits[1].on = "X_32_train" /\ sc.fits[1].M = X_32)
    /\ [](X_train_std # None =>
             /\ X_train_std.of = X_16
             /\ FitOnce(X_train_std.by, "X_16_train", X_16, 16))
    /\ [](\A s \in DOMAIN X_test_std :
             /\ X_test_std[s].of = X_test16[s]
             /\ RowLen(X_test16[s]) = 16
             /\ FitOnce(X_test_std[s].by, "X_16_train", X_16, 16))
    /\ [](X_32train_std # None =>
             /\ X_32train_std.of = X_32
             /\ FitOnce(X_32train_std.by, "X_32_train", X_32, 32))
    /\ [](\A s \in DOMAIN X_32test_std :
             /\ X_32test_std[s].of = X_32test[s]
             /\ RowLen(X_32test[s]) = 32
             /\ FitOnce(X_32test_std[s].by, "X_32_train", X_32, 32))

\* every cell has run: each SNR has a 16-column and a 32-column standardized
\* test matrix, neither of them the training matrix its scaler was fit on
C12_Witness ==
    /\ pc = "stored"
    /\ DOMAIN X_test_std = {snrs[i] : i \in 1..Len(snrs)}
    /\ DOMAIN X_32test_std = DOMAIN X_test_std
    /\ \A s \in DOMAIN X_test_std :
          /\ X_test_std[s].by[1].on = "X_16_train"
          /\ X_32test_std[s].by[1].on = "X_32_train"
          /\ X_test_std[s].of # X_16
          /\ X_32test_std[s].of # X_32
    /\ sc.fits[1].on = "X_32_train"

\* the two feature blocks of every raw sample of the dataset, taken alone
AllSamples ==
    {[mod |-> ModNames[a], snr |-> SnrValues[b], j |-> c] :
        a \in 1..NMods, b \in 1..NSnrs, c \in 1..MaxM}
Blocks ==
    [smp \in AllSamples |->
        [first |-> form_features(RawBatch(<<smp>>), RawShape(<<smp>>)).val[0],
         next |-> form_next16_features(RawBatch(<<smp>>), RawShape(<<smp>>)).val[0]]]
Block16(smp) == Blocks[smp].first
BlockNext16(smp) == Blocks[smp].next

\* row i of a 32-column matrix holds the two blocks of the sample smp
RowOf(M, i, smp) ==
    /\ [j \in 0..15 |-> M[i - 1][j]] = Block16(smp)
    /\ [j \in 0..15 |-> M[i - 1][16 + j]] = BlockNext16(smp)

\* C13: when the cells run in order, for every row i columns 0-15 and
\* columns 16-31 of X_32_train are the features of the one raw sample
\* X_train[i], and y_train[i] is the index in mods of that sample's
\* modulation; likewise row i of X_32test[snr] and y_test[snr][i]; and every
\* sample of X_test[snr] has SNR snr.
C13_LabelPairing ==
    /\ y_train # None =>
          /\ Len(y_train) = Len(X_train)
          /\ \A i \in 1..Len(X_train) : y_train[i] = Index(ModNames, X_train[i].mod)
    /\ X_16 # None =>
          \A i \in 1..Len(X_train) :
              /\ X[i - 1] = Raw(X_train[i])
              /\ X_16[i - 1] = Block16(X_train[i])
    /\ X_32 # None =>
          /\ DOMAIN X_32 = 0..(Len(X_train) - 1)
          /\ \A i \in 1..Len(X_train) : RowOf(X_32, i, X_train[i])
    /\ \A s \in DOMAIN X_test :
          /\ Len(y_test[s]) = Len(X_test[s])
          /\ \A i \in 1..Len(X_test[s]) :
                /\ X_test[s][i].snr = s
                /\ y_test[s][i] = Index(ModNames, X_test[s][i].mod)
                /\ X_test16[s][i - 1] = Block16(X_test[s][i])
    /\ \A s \in DOMAIN X_32test :
          /\ DOMAIN X_32test[s] = 0..(Len(X_test[s]) - 1)
          /\ \A i \in 1..Len(X_test[s]) : RowOf(X_32test[s], i, X_test[s][i])

\* every cell has run on a dataset held in sorted key order; the shuffles
\* have put a later modulation before an earlier one in the training set
\* and in a test set, and the two rows differ in both blocks
C13_Witness ==
    /\ pc = "stored"
    /\ Xd_digital[1].k = ModMajor[1]
    /\ \E i \in 1..(Len(y_train) - 1) :
          /\ y_train[i] > y_train[i + 1]
          /\ \A j \in {0, 16} : X_32[i - 1][j] # X_32[i][j]
    /\ \E s \in DOMAIN X_32test :
          /\ y_test[s][1] > y_test[s][2]
          /\ \A j \in {0, 16} : X_32test[s][0][j] # X_32test[s][1][j]

\* C14: for every input sample statistic 8 equals statistic 7 and statistic
\* 16 equals statistic 15, in the lag-0 block and (f24 = f23, f32 = f31) in
\* the lag-8 block, as statistics and as columns of the two matrices.
C14_TwinColumns ==
    /\ X_16 # None =>
          \A n \in SampleIds : X_16[n][7] = X_16[n][6] /\ X_16[n][15] = X_16[n][14]
    /\ X_next16 # None =>
          \A n \in SampleIds :
              X_next16[n][7] = X_next16[n][6] /\ X_next16[n][15] = X_next16[n][14]
    /\ (pc = "form_next16" /\ X_16 # None) =>
          LET Xc == BuildComplex(X, shape).val
          IN  /\ F8(Xc, shape[3]) = F7(Xc, shape[3])
              /\ F16(Xc, shape[3]) = F15(Xc, shape[3])
    /\ pc = "next16_features" =>
          /\ F24(X_complex_8lag, shape[3]) = F23(X_complex_8lag, shape[3])
          /\ F32(X_complex_8lag, shape[3]) = F31(X_complex_8lag, shape[3])

\* a sample with angles of both signs: its statistics 7 and 15 are not zero
\* in either block, and its statistics 4 and 12 differ from 3 and 11
C14_Witness ==
    /\ X_16 # None
    /\ X_next16 # None
    /\ \E n \in SampleIds :
          /\ \E k \in Columns : X[n][1][k] < 0
          /\ \E k \in Columns : X[n][1][k] > 0
          /\ X_16[n][6] # Zero /\ X_16[n][14] # Zero
          /\ X_next16[n][6] # Zero /\ X_next16[n][14] # Zero
          /\ X_16[n][3] # X_16[n][2]
          /\ X_16[n][11] # X_16[n][10]

\* the one sample of the batch with its time indices reordered: position k
\* holds what position order[k] held
Reordered(order) ==
    [n \in {0} |-> [c \in DOMAIN X[0] |-> [k \in Columns |-> X[0][c][order[k]]]]]
Rotation(s) == [k \in Columns |-> (k + s) % shape[3]]
Swap(a, b) == [k \in Columns |-> IF k = a THEN b ELSE IF k = b THEN a ELSE k]

\* the orders of the time indices tried: every permutation of a short
\* sample; every exchange of two positions and the reversal of a long one
TimeOrders ==
    IF shape[3] <= FullOrder
    THEN {o \in [Columns -> Columns] : \A a, b \in Columns : o[a] = o[b] => a = b}
    ELSE {Swap(a, b) : a, b \in Columns} \cup {[k \in Columns |-> shape[3] - 1 - k]}

\* C15: for every shift s, replacing z[k] by z[(k+s) mod L] leaves all 16
\* lag-0 statistics and all 16 lag-8 statistics of the sample unchanged, and
\* every permutation of the time indices leaves the lag-0 block unchanged.
C15_RotationInvariant ==
    (pc = "done" /\ X_32 # None /\ shape[1] = 1) =>
        /\ \A s \in Columns :
              /\ form_features(Reordered(Rotation(s)), shape).val = X_16
              /\ form_next16_features(Reordered(Rotation(s)), shape).val = X_next16
        /\ \A o \in TimeOrders : form_features(Reordered(o), shape).val = X_16

\* a sample longer than the lag that a rotation changes, and that a
\* permutation of its time indices gives another lag-8 block
C15_Witness ==
    /\ pc = "done"
    /\ X_32 # None
    /\ shape[1] = 1
    /\ shape[3] > LAG
    /\ \A s \in 1..(shape[3] - 1) : Reordered(Rotation(s)) # X
    /\ \E o \in TimeOrders :
          /\ form_features(Reordered(o), shape).val = X_16
          /\ form_next16_features(Reordered(o), shape).val # X_next16

=============================================================================
